---------------------------- MODULE Spec2Model ----------------------------
(***************************************************************************)
(* A model of hugescm's structural change classifier, line-interning codec *)
(* and pkt-line Scanner:                                                   *)
(*   - modules/diffmatchpatch/stringutil.go : intToRune / runeToInt,       *)
(*                                            indexOf / runesIndexOf       *)
(*   - modules/zeta/object/change.go        : Change, ChangeEntry, Changes *)
(*                                            and the pktline Scanner      *)
(* Strings are sequences of byte values; a uint32 is a natural number (the *)
(* model holds those up to 2^31 - 1, TLC's largest integer); an optional   *)
(* value is a sequence of length 0 or 1.                                   *)
(***************************************************************************)
EXTENDS Integers, Sequences, FiniteSets, TLC

VARIABLES
    \* ---- codec: one call of intToRune followed by runeToInt
    cIn,        \* the uint32 handed to intToRune
    cRune,      \* what intToRune did: a rune, or a panic
    cOut,       \* what runeToInt did on that rune
    cpc,        \* "start" | "encoded" | "decoded" ("parked": not run)
    \* ---- a single Change: Action() and Files()
    chg,        \* the Change the methods are called on
    chg0,       \* the Change as it was constructed
    actRes,     \* <<>> before the call, <<result of Action()>> after it
    filesRes,   \* <<>> before the call, <<result of Files()>> after it
    \* ---- sort.Sort over a Changes collection
    sIn,        \* the collection as handed to Sort
    sC,         \* the collection being sorted in place
    sI,         \* outer index of the insertion sort
    sJ,         \* inner index of the insertion sort
    spc,        \* "call" | "outer" | "inner" | "done" ("parked": not run)
    \* ---- Changes.PatchContext
    pChanges,   \* the ChangeSet handed to PatchContext
    pArgs,      \* <<>>, or <<the arguments PatchContext gave getPatchContext>>
    cancelled,  \* whether the caller's context is done
    pPos,       \* 1-based index of the change the build is at
    pRecords,   \* the records of the Patch built so far
    pErr,       \* "none" | "cancelled" | "malformed" | "store"
    pVia,       \* the method called: "none" | "Changes" | "Change"
    ppc,        \* "idle" | "check" | "work" | "done" ("parked": not run)
    cancelAt,   \* <<>>, or <<where the build was when the context became done>>
    \* ---- a pkt-line Scanner on a reader
    scnR,       \* the reader s.r: what it has yet to deliver, and how it ends
    scnErr,     \* s.err
    scnPayload, \* s.payload: its backing array and its length
    scnLen,     \* s.len, the 4 bytes of the last pkt-len
    scnR0,      \* the reader as the last Scan found it
    scnRet,     \* <<>>, or <<what the last Scan returned>>
    scnStop,    \* the error that made the last Scan return false, or "nil"
    scnFirst,   \* <<>>, or <<the first non-nil s.err a Scan left>>
    scnSeen,    \* <<>>, or <<what Err returned, called since the last Scan>>
    scnCalls,   \* how many times Scan was called
    \* ---- indexOf and runesIndexOf on the same arguments
    ixStr,      \* str / target
    ixPat,      \* pattern
    ixI,        \* i
    ixRes,      \* <<>>, or <<what indexOf returned>>
    ixRunes     \* <<>>, or <<what runesIndexOf returned>>

codecVars  == <<cIn, cRune, cOut, cpc>>
changeVars == <<chg, chg0, actRes, filesRes>>
sortVars   == <<sIn, sC, sI, sJ, spc>>
patchVars  == <<pChanges, pArgs, cancelled, pPos, pRecords, pErr, pVia, ppc, cancelAt>>
scanVars   == <<scnR, scnErr, scnPayload, scnLen, scnR0, scnRet, scnStop,
                scnFirst, scnSeen, scnCalls>>
indexVars  == <<ixStr, ixPat, ixI, ixRes, ixRunes>>
vars       == <<codecVars, changeVars, sortVars, patchVars, scanVars, indexVars>>

-----------------------------------------------------------------------------
(* Machine arithmetic                                                      *)

Pow2(n) == 2 ^ n

\* The largest integer TLC holds; a uint32 above it is outside the model.
MaxInput == (Pow2(30) - 1) * 2 + 1

\* Conversion to uint32: x mod 2^32. A value that is already a uint32 is
\* kept; a negative one wraps to x + 2^32.
U32(x) == IF 0 <= x THEN x ELSE x + Pow2(32)

Byte(x) == x % 256

RECURSIVE BitAnd(_, _)
BitAnd(a, b) ==
    IF a = 0 \/ b = 0 THEN 0
    ELSE (a % 2) * (b % 2) + 2 * BitAnd(a \div 2, b \div 2)

RECURSIVE BitOr(_, _)
BitOr(a, b) ==
    IF a = 0 THEN b
    ELSE IF b = 0 THEN a
    ELSE (IF a % 2 = 1 \/ b % 2 = 1 THEN 1 ELSE 0) + 2 * BitOr(a \div 2, b \div 2)

Shr(x, n) == x \div Pow2(n)

Shl(x, n) == U32(x * Pow2(n))

-----------------------------------------------------------------------------
(* unicode/utf8, as intToRune and runeToInt use it                         *)

RuneError == 65533

MaxRune == 1114111

SurrogateMin == 55296

SurrogateMax == 57343

\* utf8.first: the kind of a leading byte. 240 (as) is ASCII, 241 (xx) is
\* invalid; otherwise the low 3 bits are the size and the high 4 bits index
\* acceptRanges.
First(b) ==
    IF b < 128 THEN 240
    ELSE IF b < 194 THEN 241
    ELSE IF b <= 223 THEN 2
    ELSE IF b = 224 THEN 19
    ELSE IF b <= 236 THEN 3
    ELSE IF b = 237 THEN 35
    ELSE IF b <= 239 THEN 3
    ELSE IF b = 240 THEN 52
    ELSE IF b <= 243 THEN 4
    ELSE IF b = 244 THEN 68
    ELSE 241

\* utf8.acceptRanges: the range the second byte must lie in.
AcceptRange(k) ==
    CASE k = 0 -> [lo |-> 128, hi |-> 191]
      [] k = 1 -> [lo |-> 160, hi |-> 191]
      [] k = 2 -> [lo |-> 128, hi |-> 159]
      [] k = 3 -> [lo |-> 144, hi |-> 191]
      [] k = 4 -> [lo |-> 128, hi |-> 143]
      [] OTHER -> [lo |-> 1, hi |-> 0]

IsContinuation(b) == 128 <= b /\ b <= 191

\* utf8.DecodeRune(p) for a non-empty p: the rune and the bytes consumed.
DecodeRune(p) ==
    LET n  == Len(p)
        p0 == p[1]
        x  == First(p0)
        sz == x % 8
        ac == AcceptRange(x \div 16)
        bad == [r |-> RuneError, size |-> 1]
    IN  IF x >= 240
        THEN (IF x = 240 THEN [r |-> p0, size |-> 1] ELSE bad)
        ELSE IF n < sz THEN bad
        ELSE IF p[2] < ac.lo \/ ac.hi < p[2] THEN bad
        ELSE IF sz <= 2
             THEN [r |-> BitOr(Shl(BitAnd(p0, 31), 6), BitAnd(p[2], 63)), size |-> 2]
        ELSE IF ~IsContinuation(p[3]) THEN bad
        ELSE IF sz <= 3
             THEN [r |-> BitOr(BitOr(Shl(BitAnd(p0, 15), 12), Shl(BitAnd(p[2], 63), 6)),
                               BitAnd(p[3], 63)), size |-> 3]
        ELSE IF ~IsContinuation(p[4]) THEN bad
        ELSE [r |-> BitOr(BitOr(BitOr(Shl(BitAnd(p0, 7), 18), Shl(BitAnd(p[2], 63), 12)),
                                Shl(BitAnd(p[3], 63), 6)),
                          BitAnd(p[4], 63)), size |-> 4]

\* utf8.EncodeRune(buf, r): the bytes written (their number is the size).
\* An invalid rune is written as RuneError.
EncodeRune(r) ==
    LET enc3(v) == << BitOr(224, Byte(Shr(v, 12))),
                      BitOr(128, BitAnd(Byte(Shr(v, 6)), 63)),
                      BitOr(128, BitAnd(Byte(v), 63)) >>
    IN  IF r >= 0 /\ r <= 127 THEN << Byte(r) >>
        ELSE IF r >= 0 /\ r <= 2047
             THEN << BitOr(192, Byte(Shr(r, 6))), BitOr(128, BitAnd(Byte(r), 63)) >>
        ELSE IF r < 0 \/ r > MaxRune \/ (SurrogateMin <= r /\ r <= SurrogateMax)
             THEN enc3(RuneError)
        ELSE IF r <= 65535 THEN enc3(r)
        ELSE << BitOr(240, Byte(Shr(r, 18))),
                BitOr(128, BitAnd(Byte(Shr(r, 12)), 63)),
                BitOr(128, BitAnd(Byte(Shr(r, 6)), 63)),
                BitOr(128, BitAnd(Byte(r), 63)) >>

-----------------------------------------------------------------------------
(* stringutil.go: the line-interning codec                                 *)

UNICODE_INVALID_RANGE_START == 55296

UNICODE_INVALID_RANGE_END == 57343

UNICODE_INVALID_RANGE_DELTA ==
    UNICODE_INVALID_RANGE_END - UNICODE_INVALID_RANGE_START + 1

UNICODE_RANGE_MAX == 1114111

ONE_BYTE_BITS == 7

\* TWO_BYTE_BITS one bit too wide: the 2-byte branch takes 2^11..2^12 - 1.
TWO_BYTE_BITS_Wide == ONE_BYTE_BITS + 5

TWO_BYTE_BITS == 11

THREE_BYTE_BITS == 16

FOUR_BYTE_BITS == 21

\* getBits(i uint32, cnt byte, from byte) byte
getBits(i, cnt, from) == Byte(BitAnd(Shr(i, from), Pow2(cnt) - 1))

\* What a call did: it returned v, or it panicked.
Returned(v) == [ok |-> TRUE, v |-> v, why |-> "returned"]

Panicked(why) == [ok |-> FALSE, v |-> 0, why |-> why]

\* The self-check after each utf8.DecodeRune in intToRune.
SelfCheck(d, size) ==
    IF d.size # size \/ d.r = RuneError
    THEN Panicked("Error encoding an int")
    ELSE Returned(d.r)

\* ThreeByteLimit without the "- 3" that keeps 0xFFFD..0xFFFF out.
ThreeByteLimitNoSkip == Pow2(THREE_BYTE_BITS) - UNICODE_INVALID_RANGE_DELTA

\* The bound of the 3-byte branch of intToRune.
ThreeByteLimit == Pow2(THREE_BYTE_BITS) - UNICODE_INVALID_RANGE_DELTA - 3

\* The bound of the 4-byte branch of intToRune.
FourByteLimit == Pow2(FOUR_BYTE_BITS) - UNICODE_INVALID_RANGE_DELTA - 3

\* FourByteShift without the "+ 3".
FourByteShiftNoSkip == UNICODE_INVALID_RANGE_DELTA

\* What the 4-byte branch of intToRune adds to i.
FourByteShift == UNICODE_INVALID_RANGE_DELTA + 3

\* TooLarge returning the low 21 bits of i instead of panicking.
TooLargeWraps(i) == Returned(i % Pow2(FOUR_BYTE_BITS))

\* The last statement of intToRune.
TooLarge(i) == Panicked("The integer is too large for runeToInt()")

intToRune(i) ==
    IF i < Pow2(ONE_BYTE_BITS) THEN Returned(i)
    ELSE IF i < Pow2(TWO_BYTE_BITS)
    THEN SelfCheck(DecodeRune(<< BitOr(192, getBits(i, 5, 6)),
                                 BitOr(128, getBits(i, 6, 0)) >>), 2)
    ELSE IF i < ThreeByteLimit
    THEN LET j == IF i >= UNICODE_INVALID_RANGE_START
                  THEN U32(i + UNICODE_INVALID_RANGE_DELTA) ELSE i
         IN  SelfCheck(DecodeRune(<< BitOr(224, getBits(j, 4, 12)),
                                     BitOr(128, getBits(j, 6, 6)),
                                     BitOr(128, getBits(j, 6, 0)) >>), 3)
    ELSE IF i < FourByteLimit
    THEN LET j == U32(i + FourByteShift)
         IN  SelfCheck(DecodeRune(<< BitOr(240, getBits(j, 3, 18)),
                                     BitOr(128, getBits(j, 6, 12)),
                                     BitOr(128, getBits(j, 6, 6)),
                                     BitOr(128, getBits(j, 6, 0)) >>), 4)
    ELSE TooLarge(i)

\* runeToInt4 without the "- 3".
runeToInt4KeepsSkip(result) == Returned(U32(result - UNICODE_INVALID_RANGE_DELTA))

\* The return of the size == 4 branch of runeToInt.
runeToInt4(result) == Returned(U32(result - UNICODE_INVALID_RANGE_DELTA - 3))

runeToInt(r) ==
    LET i     == U32(r)
        bytes == EncodeRune(r)
        size  == Len(bytes)
    IN  IF i < Pow2(ONE_BYTE_BITS) THEN Returned(i)
        ELSE IF size = 2
        THEN Returned(BitOr(Shl(BitAnd(bytes[1], 31), 6), BitAnd(bytes[2], 63)))
        ELSE IF size = 3
        THEN LET result == BitOr(BitOr(Shl(BitAnd(bytes[1], 15), 12),
                                       Shl(BitAnd(bytes[2], 63), 6)),
                                 BitAnd(bytes[3], 63))
             IN  IF result >= UNICODE_INVALID_RANGE_END
                 THEN Returned(U32(result - UNICODE_INVALID_RANGE_DELTA))
                 ELSE Returned(result)
        ELSE IF size = 4
        THEN runeToInt4(BitOr(BitOr(BitOr(Shl(BitAnd(bytes[1], 7), 18),
                                          Shl(BitAnd(bytes[2], 63), 12)),
                                    Shl(BitAnd(bytes[3], 63), 6)),
                              BitAnd(bytes[4], 63)))
        ELSE Panicked("Unexpected state decoding rune")

-----------------------------------------------------------------------------
(* change.go: ChangeEntry, Change                                          *)

PathAA == << 97, 47, 97 >>       \* "a/a"

PathAY == << 97, 47, 121 >>      \* "a/y"

PathBX == << 98, 47, 120 >>      \* "b/x"

\* The zero value of TreeEntry.
ZeroTreeEntry == [Name |-> << >>, Mode |-> "", Hash |-> "", Size |-> 0]

\* A TreeEntry as a tree holds it.
Entry(name, mode, hash) == [Name |-> name, Mode |-> mode, Hash |-> hash, Size |-> 1]

\* var empty ChangeEntry: the zero value (no name, nil tree, zero entry).
empty == [Name |-> << >>, Tree |-> "nil", TreeEntry |-> ZeroTreeEntry]

\* (*Tree).Equal: two nil trees are equal, a nil tree equals no other.
TreeEqual(t, o) == t = o

\* (*TreeEntry).Equal: field by field.
TreeEntryEqual(e, o) ==
    e.Name = o.Name /\ e.Mode = o.Mode /\ e.Hash = o.Hash /\ e.Size = o.Size

\* FileMode.IsFile
IsFile(mode) == mode \in {"regular", "executable"}

\* newFile(name, mode, hash, size, backend): the file view of an entry.
newFile(e) == [Name |-> e.Name, Mode |-> e.Mode, Hash |-> e.Hash, Size |-> e.Size]

Equal(e, o) ==
    e.Name = o.Name /\ TreeEqual(e.Tree, o.Tree) /\ TreeEntryEqual(e.TreeEntry, o.TreeEntry)

\* Action without its first test: two absent sides read as an Insert.
ActionNoMalformed(c) ==
    IF Equal(c.From, empty) THEN [action |-> "Insert", err |-> ""]
    ELSE IF Equal(c.To, empty) THEN [action |-> "Delete", err |-> ""]
    ELSE [action |-> "Modify", err |-> ""]

\* (*Change).Action
Action(c) ==
    IF Equal(c.From, empty) /\ Equal(c.To, empty)
    THEN [action |-> "Action(0)", err |-> "malformed change: empty from and to"]
    ELSE IF Equal(c.From, empty) THEN [action |-> "Insert", err |-> ""]
    ELSE IF Equal(c.To, empty) THEN [action |-> "Delete", err |-> ""]
    ELSE [action |-> "Modify", err |-> ""]

\* Files resolving each side on its own.
FilesKeepsTo(c) ==
    LET a  == Action(c)
        to == IF a.action \in {"Insert", "Modify"} /\ IsFile(c.To.TreeEntry.Mode)
              THEN << newFile(c.To.TreeEntry) >> ELSE << >>
        from == IF a.action \in {"Delete", "Modify"} /\ IsFile(c.From.TreeEntry.Mode)
                THEN << newFile(c.From.TreeEntry) >> ELSE << >>
    IN  IF a.err # "" THEN [from |-> << >>, to |-> << >>, err |-> a.err]
        ELSE [from |-> from, to |-> to, err |-> ""]

\* (*Change).Files
Files(c) ==
    LET a   == Action(c)
        nothing == [from |-> << >>, to |-> << >>, err |-> ""]
    IN  IF a.err # "" THEN [from |-> << >>, to |-> << >>, err |-> a.err]
        ELSE IF a.action \in {"Insert", "Modify"} /\ ~IsFile(c.To.TreeEntry.Mode)
        THEN nothing
        ELSE IF a.action \in {"Delete", "Modify"} /\ ~IsFile(c.From.TreeEntry.Mode)
        THEN nothing
        ELSE [from |-> IF a.action \in {"Delete", "Modify"}
                       THEN << newFile(c.From.TreeEntry) >> ELSE << >>,
              to   |-> IF a.action \in {"Insert", "Modify"}
                       THEN << newFile(c.To.TreeEntry) >> ELSE << >>,
              err  |-> ""]

\* name always taking To's path.
nameOfTo(c) == c.To.Name

\* (*Change).name
name(c) == IF ~Equal(c.From, empty) THEN c.From.Name ELSE c.To.Name

-----------------------------------------------------------------------------
(* change.go: Changes as a sort.Interface                                  *)

\* strings.Compare on byte strings: -1, 0 or +1.
RECURSIVE Compare(_, _)
Compare(a, b) ==
    IF a = << >> /\ b = << >> THEN 0
    ELSE IF a = << >> THEN -1
    ELSE IF b = << >> THEN 1
    ELSE IF a[1] < b[1] THEN -1
    ELSE IF a[1] > b[1] THEN 1
    ELSE Compare(Tail(a), Tail(b))

\* Changes.Len
ChangesLen(c) == Len(c)

\* Changes.Swap (1-based indices)
Swap(c, i, j) == [c EXCEPT ![i] = c[j], ![j] = c[i]]

\* Changes.Less (1-based indices)
Less(c, i, j) == Compare(name(c[i]), name(c[j])) < 0

-----------------------------------------------------------------------------
(* change.go, package pktline: byte slices and the reader                  *)

\* A []byte is a sequence of runs [b |-> byte, n |-> count], n > 0, no two
\* neighbours of the same byte: a payload of 65516 bytes is one or two runs.
Run(b, n) == IF n = 0 THEN << >> ELSE << [b |-> b, n |-> n] >>

\* len of a []byte
RECURSIVE RLen(_)
RLen(q) == IF q = << >> THEN 0 ELSE q[1].n + RLen(Tail(q))

\* append(a, b...)
RCat(a, b) ==
    IF a = << >> THEN b
    ELSE IF b = << >> THEN a
    ELSE IF a[Len(a)].b = b[1].b
    THEN SubSeq(a, 1, Len(a) - 1)
             \o << [b |-> b[1].b, n |-> a[Len(a)].n + b[1].n] >> \o Tail(b)
    ELSE a \o b

\* q[:k], for k <= len(q)
RECURSIVE RTake(_, _)
RTake(q, k) ==
    IF k = 0 \/ q = << >> THEN << >>
    ELSE IF q[1].n <= k THEN << q[1] >> \o RTake(Tail(q), k - q[1].n)
    ELSE << [b |-> q[1].b, n |-> k] >>

\* q[k:], for k <= len(q)
RECURSIVE RDrop(_, _)
RDrop(q, k) ==
    IF k = 0 \/ q = << >> THEN q
    ELSE IF q[1].n <= k THEN RDrop(Tail(q), k - q[1].n)
    ELSE << [b |-> q[1].b, n |-> q[1].n - k] >> \o Tail(q)

\* The bytes of a short []byte, one by one.
RECURSIVE Expand(_)
Expand(q) ==
    IF q = << >> THEN << >>
    ELSE [i \in 1 .. q[1].n |-> q[1].b] \o Expand(Tail(q))

\* The []byte of a sequence of bytes.
RECURSIVE FromBytes(_)
FromBytes(s) ==
    IF s = << >> THEN << >> ELSE RCat(Run(s[1], 1), FromBytes(Tail(s)))

\* io.ReadFull(r, buf) with len(buf) = k. The reader r has r.data left to
\* deliver and then returns r.end for ever. The result: the bytes put into
\* buf, the reader afterwards, and the error.
ReadFull(r, k) ==
    LET avail == RLen(r.data)
    IN  IF k = 0 THEN [got |-> << >>, r |-> r, err |-> "nil"]
        ELSE IF avail >= k
        THEN [got |-> RTake(r.data, k),
              r   |-> [r EXCEPT !.data = RDrop(r.data, k)],
              err |-> "nil"]
        ELSE [got |-> r.data,
              r   |-> [r EXCEPT !.data = << >>],
              err |-> IF r.end # "EOF" THEN r.end
                      ELSE IF avail = 0 THEN "EOF" ELSE "ErrUnexpectedEOF"]

-----------------------------------------------------------------------------
(* change.go, package pktline: Scanner                                     *)

lenSize == 4

\* The largest pkt-payload the Scanner accepts.
OversizePayloadMax == 65516

ErrInvalidPktLen == "ErrInvalidPktLen"

\* reverseHexTable[b]
hexval(b) ==
    IF 48 <= b /\ b <= 57 THEN b - 48
    ELSE IF 65 <= b /\ b <= 70 THEN b - 55
    ELSE IF 97 <= b /\ b <= 102 THEN b - 87
    ELSE 255

hexDecode(lenBytes) ==
    LET a == hexval(lenBytes[1])
        b == hexval(lenBytes[2])
        c == hexval(lenBytes[3])
        d == hexval(lenBytes[4])
    IN  IF a > 15 \/ b > 15 \/ c > 15 \/ d > 15
        THEN [n |-> 0, err |-> ErrInvalidPktLen]
        ELSE [n |-> BitOr(BitOr(BitOr(Shl(a, 12), Shl(b, 8)), Shl(c, 4)), d),
              err |-> "nil"]

\* OverMax accepting every length.
OverMaxNever(n) == FALSE

\* case n > OversizePayloadMax+lenSize
OverMax(n) == n > OversizePayloadMax + lenSize

\* readPayloadLen on the reader r, s.len being len: the payload length, the
\* error, the reader afterwards and s.len afterwards.
readPayloadLen(r, len) ==
    LET f    == ReadFull(r, lenSize)
        got  == Expand(f.got)
        len1 == [i \in 1 .. lenSize |-> IF i <= Len(got) THEN got[i] ELSE len[i]]
        h    == hexDecode(len1)
        res(l, err) == [l |-> l, err |-> err, r |-> f.r, len |-> len1]
    IN  IF f.err # "nil"
        THEN (IF f.err = "ErrUnexpectedEOF"
              THEN res(0, ErrInvalidPktLen) ELSE res(0, f.err))
        ELSE IF h.err # "nil" THEN res(0, h.err)
        ELSE IF h.n = 0 THEN res(0, "nil")
        ELSE IF h.n <= lenSize THEN res(0, ErrInvalidPktLen)
        ELSE IF OverMax(h.n) THEN res(0, ErrInvalidPktLen)
        ELSE res(h.n - lenSize, "nil")

\* NewScanner(r)
NewScanner(r) ==
    [r |-> r, err |-> "nil", payload |-> [buf |-> << >>, len |-> 0],
     len |-> [i \in 1 .. lenSize |-> 0]]

\* Scanner.Scan on s: s afterwards, what Scan returned, and the error that
\* stopped it ("nil" when it returned true).
ScanCall(s) ==
    LET h  == readPayloadLen(s.r, s.len)
        \* if cap(s.payload) < l { s.payload = make([]byte, 0, l) }
        p1 == IF RLen(s.payload.buf) < h.l
              THEN [buf |-> Run(0, h.l), len |-> 0] ELSE s.payload
        f  == ReadFull(h.r, h.l)
        \* what ReadFull wrote is in the backing array, read in full or not
        p2 == [p1 EXCEPT !.buf = RCat(f.got, RDrop(p1.buf, RLen(f.got)))]
    IN  IF h.err = "EOF"
        THEN [s    |-> [s EXCEPT !.r = h.r, !.len = h.len, !.err = "nil"],
              ret  |-> FALSE, stop |-> "EOF"]
        ELSE IF h.err # "nil"
        THEN [s    |-> [s EXCEPT !.r = h.r, !.len = h.len, !.err = h.err],
              ret  |-> FALSE, stop |-> h.err]
        ELSE IF f.err # "nil"
        THEN [s    |-> [r |-> f.r, len |-> h.len, err |-> f.err, payload |-> p2],
              ret  |-> FALSE, stop |-> f.err]
        ELSE [s    |-> [r |-> f.r, len |-> h.len, err |-> "nil",
                        payload |-> [p2 EXCEPT !.len = h.l]],
              ret  |-> TRUE, stop |-> "nil"]

\* Scanner.Bytes
Bytes(payload) == RTake(payload.buf, payload.len)

-----------------------------------------------------------------------------
(* stringutil.go: indexOf, runesIndexOf, runesIndex                        *)

\* The least element of a non-empty set of integers.
Least(S) == CHOOSE k \in S : \A m \in S : k <= m

\* strings.Index(s, substr): the index of the first instance of substr in
\* s, or -1; indices count from 0.
stringsIndex(s, substr) ==
    LET at == { k \in 0 .. (Len(s) - Len(substr)) :
                    SubSeq(s, k + 1, k + Len(substr)) = substr }
    IN  IF at = {} THEN -1 ELSE Least(at)

\* str[i:], for 0 <= i <= len(str)
SliceFrom(str, i) == SubSeq(str, i + 1, Len(str))

\* indexOf with the guard "i > len(str)", which lets i = len(str) through.
indexOfUpToLen(str, pattern, i) ==
    IF i > Len(str) THEN -1
    ELSE IF i <= 0 THEN stringsIndex(str, pattern)
    ELSE LET ind == stringsIndex(SliceFrom(str, i), pattern)
         IN  IF ind = -1 THEN -1 ELSE ind + i

indexOf(str, pattern, i) ==
    IF i > Len(str) - 1 THEN -1
    ELSE IF i <= 0 THEN stringsIndex(str, pattern)
    ELSE LET ind == stringsIndex(SliceFrom(str, i), pattern)
         IN  IF ind = -1 THEN -1 ELSE ind + i

\* The loop of runesIndex, from index i on.
RECURSIVE runesIndexLoop(_, _, _)
runesIndexLoop(r1, r2, i) ==
    IF ~(i <= Len(r1) - Len(r2)) THEN -1
    ELSE IF SubSeq(r1, i + 1, i + Len(r2)) = r2 THEN i
    ELSE runesIndexLoop(r1, r2, i + 1)

runesIndex(r1, r2) == runesIndexLoop(r1, r2, 0)

runesIndexOf(target, pattern, i) ==
    IF i > Len(target) - 1 THEN -1
    ELSE IF i <= 0 THEN runesIndex(target, pattern)
    ELSE LET ind == runesIndex(SliceFrom(target, i), pattern)
         IN  IF ind = -1 THEN -1 ELSE ind + i

\* string(runes): the UTF-8 bytes of a rune slice.
RECURSIVE StringOf(_)
StringOf(runes) ==
    IF runes = << >> THEN << >>
    ELSE EncodeRune(runes[1]) \o StringOf(Tail(runes))

-----------------------------------------------------------------------------
(* Bounds of the model                                                     *)

\* Inputs of the codec are taken this far on either side of each edge.
Window == 12

\* The longest Changes collection handed to sort.Sort.
MaxSortLen == 3

\* The longest ChangeSet handed to PatchContext.
MaxPatchLen == 2

\* The most pkt-lines, whole or cut short, a reader delivers.
MaxPackets == 2

\* The most calls of Scan on one Scanner.
MaxScans == 4

\* The longest str (in runes) handed to indexOf and runesIndexOf.
MaxStrLen == 3

\* The longest pattern (in runes).
MaxPatLen == 2

\* How far i goes below 0 and past the end of the longest str.
IndexMargin == 2

-----------------------------------------------------------------------------
(* Each component at rest, for the specifications that do not run it       *)

CodecParked ==
    cIn = 0 /\ cRune = << >> /\ cOut = << >> /\ cpc = "parked"

ChangeParked ==
    chg = [From |-> empty, To |-> empty] /\ chg0 = chg
    /\ actRes = << >> /\ filesRes = << >>

SortParked ==
    sIn = << >> /\ sC = << >> /\ sI = 0 /\ sJ = 0 /\ spc = "parked"

PatchParked ==
    pChanges = << >> /\ pArgs = << >> /\ cancelled = FALSE /\ pPos = 0
    /\ pRecords = << >> /\ pErr = "none" /\ pVia = "none" /\ ppc = "parked"
    /\ cancelAt = << >>

ScanParked ==
    /\ scnR = [data |-> << >>, end |-> "EOF"] /\ scnR0 = scnR
    /\ scnErr = "nil" /\ scnPayload = [buf |-> << >>, len |-> 0]
    /\ scnLen = << >> /\ scnRet = << >> /\ scnStop = "nil"
    /\ scnFirst = << >> /\ scnSeen = << >> /\ scnCalls = 0

IndexParked ==
    /\ ixStr = << >> /\ ixPat = << >> /\ ixI = 0
    /\ ixRes = << >> /\ ixRunes = << >>

-----------------------------------------------------------------------------
(* The codec: intToRune on an input, then runeToInt on the rune it gave    *)

\* The values at which intToRune changes branch or outcome, and the ends
\* of uint32.
CodecEdges ==
    { 0, Pow2(ONE_BYTE_BITS), Pow2(TWO_BYTE_BITS), UNICODE_INVALID_RANGE_START,
      ThreeByteLimit, Pow2(THREE_BYTE_BITS), UNICODE_RANGE_MAX - FourByteShift,
      UNICODE_RANGE_MAX, FourByteLimit, Pow2(FOUR_BYTE_BITS), MaxInput - Window - 1 }

CodecInputs ==
    { i \in UNION { (e - Window) .. (e + Window) : e \in CodecEdges }
          : 0 <= i }
    \cup { MaxInput } \cup { Pow2(k) : k \in 0 .. 30 } \cup { 3 * Pow2(k) : k \in 0 .. 29 }

CodecInit ==
    /\ cIn \in CodecInputs
    /\ cRune = << >> /\ cOut = << >> /\ cpc = "start"
    /\ ChangeParked /\ SortParked /\ PatchParked /\ ScanParked /\ IndexParked

Encode ==
    /\ cpc = "start"
    /\ cRune' = << intToRune(cIn) >>
    /\ cpc' = "encoded"
    /\ UNCHANGED <<cIn, cOut, changeVars, sortVars, patchVars,
                   scanVars, indexVars>>

Decode ==
    /\ cpc = "encoded"
    /\ cRune[1].ok
    /\ cOut' = << runeToInt(cRune[1].v) >>
    /\ cpc' = "decoded"
    /\ UNCHANGED <<cIn, cRune, changeVars, sortVars, patchVars,
                   scanVars, indexVars>>

CodecNext == Encode \/ Decode

CodecSpec == CodecInit /\ [][CodecNext]_vars

-----------------------------------------------------------------------------
(* One Change: Action() and Files(), in either order                       *)

ChangeNames == { << >>, PathAA }

ChangeEntries ==
    { ZeroTreeEntry, Entry(<< 97 >>, "regular", "h1"), Entry(<< 97 >>, "dir", "h2"),
      Entry(<< 97 >>, "symlink", "h3") }

\* The sides a differ can hand over: the empty sentinel, and entries of a
\* tree (every entry read from a tree carries that tree).
ChangeSides ==
    { empty } \cup
    { [Name |-> n, Tree |-> "t1", TreeEntry |-> e] : n \in ChangeNames, e \in ChangeEntries }

ChangeInit ==
    /\ chg \in [From : ChangeSides, To : ChangeSides]
    /\ chg0 = chg
    /\ actRes = << >> /\ filesRes = << >>
    /\ CodecParked /\ SortParked /\ PatchParked /\ ScanParked /\ IndexParked

CallAction ==
    /\ actRes = << >>
    /\ actRes' = << Action(chg) >>
    /\ UNCHANGED <<chg, chg0, filesRes, codecVars, sortVars, patchVars,
                   scanVars, indexVars>>

CallFiles ==
    /\ filesRes = << >>
    /\ filesRes' = << Files(chg) >>
    /\ UNCHANGED <<chg, chg0, actRes, codecVars, sortVars, patchVars,
                   scanVars, indexVars>>

ChangeNext == CallAction \/ CallFiles

ChangeSpec == ChangeInit /\ [][ChangeNext]_vars

-----------------------------------------------------------------------------
(* sort.Sort(Changes): for a collection this short, an insertion sort that *)
(* reads the collection through Len, Less and Swap only                    *)

FileSide(path, hash) ==
    [Name |-> path, Tree |-> "t1", TreeEntry |-> Entry(path, "regular", hash)]

SortSides == { empty, FileSide(PathAA, "h1"), FileSide(PathAY, "h1"), FileSide(PathBX, "h1") }

\* The malformed change, every Insert, Delete and same-path Modify, and
\* two Modifies whose sides have different paths.
SortChanges ==
    { [From |-> empty, To |-> empty] }
    \cup { [From |-> empty, To |-> s] : s \in SortSides \ { empty } }
    \cup { [From |-> s, To |-> empty] : s \in SortSides \ { empty } }
    \cup { [From |-> s, To |-> s] : s \in SortSides \ { empty } }
    \cup { [From |-> FileSide(PathAA, "h1"), To |-> FileSide(PathBX, "h1")],
           [From |-> FileSide(PathBX, "h1"), To |-> FileSide(PathAA, "h1")] }

SortInit ==
    /\ sIn \in UNION { [1 .. n -> SortChanges] : n \in 0 .. MaxSortLen }
    /\ sC = sIn /\ sI = 0 /\ sJ = 0 /\ spc = "call"
    /\ CodecParked /\ ChangeParked /\ PatchParked /\ ScanParked /\ IndexParked

\* sort.Sort: nothing to do for fewer than two elements.
SortCall ==
    /\ spc = "call"
    /\ IF ChangesLen(sC) <= 1
       THEN spc' = "done" /\ sI' = sI
       ELSE spc' = "outer" /\ sI' = 2
    /\ UNCHANGED <<sIn, sC, sJ, codecVars, changeVars, patchVars,
                   scanVars, indexVars>>

\* for i := a + 1; i < b; i++
SortOuter ==
    /\ spc = "outer"
    /\ IF sI <= ChangesLen(sC)
       THEN spc' = "inner" /\ sJ' = sI
       ELSE spc' = "done" /\ sJ' = sJ
    /\ UNCHANGED <<sIn, sC, sI, codecVars, changeVars, patchVars,
                   scanVars, indexVars>>

\* for j := i; j > a && data.Less(j, j-1); j-- { data.Swap(j, j-1) }
SortInner ==
    /\ spc = "inner"
    /\ IF sJ > 1 /\ Less(sC, sJ, sJ - 1)
       THEN sC' = Swap(sC, sJ, sJ - 1) /\ sJ' = sJ - 1 /\ sI' = sI /\ spc' = spc
       ELSE sC' = sC /\ sJ' = sJ /\ sI' = sI + 1 /\ spc' = "outer"
    /\ UNCHANGED <<sIn, codecVars, changeVars, patchVars,
                   scanVars, indexVars>>

SortNext == SortCall \/ SortOuter \/ SortInner

SortSpec == SortInit /\ [][SortNext]_vars

-----------------------------------------------------------------------------
(* Changes.PatchContext and Change.PatchContext hand their arguments to    *)
(* getPatchContext, the build of the Patch: one change after the other, in *)
(* order, the context looked at before each change.                        *)

\* The object store: what GetBlob(hash) gives. A text blob is known by its
\* number of distinct lines, which the line table numbers 0 .. lines - 1.
GetBlob(hash) ==
    CASE hash = "h1" -> [kind |-> "text", lines |-> 3]
      [] hash = "h2" -> [kind |-> "text", lines |-> UNICODE_RANGE_MAX - FourByteShift + 2]
      [] hash = "h3" -> [kind |-> "missing", lines |-> 0]
      [] hash = "h4" -> [kind |-> "binary", lines |-> 0]
      [] hash = "h5" -> [kind |-> "text", lines |-> FourByteLimit + 1]
      [] hash = "h6" -> [kind |-> "text", lines |-> UNICODE_RANGE_MAX - FourByteShift + 1]
      [] OTHER -> [kind |-> "missing", lines |-> 0]

\* Whether the line ids 0 .. lines - 1 are all encoded: intToRune is called
\* on each id in turn and its panic on an id is caught; the ids that panic
\* are the large ones, so the largest id decides.
LinesEncoded(lines) == lines = 0 \/ intToRune(lines - 1).ok

\* What the build does with one change: an error, or the change's record.
ProcessChange(c) ==
    LET a     == Action(c)
        f     == Files(c)
        blobs == { GetBlob(v.Hash) : v \in { f.from[k] : k \in 1 .. Len(f.from) }
                                         \cup { f.to[k] : k \in 1 .. Len(f.to) } }
        rec(kind) == [path |-> name(c), action |-> a.action, kind |-> kind]
    IN  IF a.err # "" THEN [err |-> "malformed", record |-> << >>]
        ELSE IF f.from = << >> /\ f.to = << >>
        THEN [err |-> "none", record |-> << rec("structural") >>]
        ELSE IF \E b \in blobs : b.kind = "missing"
        THEN [err |-> "store", record |-> << >>]
        ELSE IF \E b \in blobs : b.kind = "binary"
        THEN [err |-> "none", record |-> << rec("binary") >>]
        ELSE IF \E b \in blobs : ~LinesEncoded(b.lines)
        THEN [err |-> "none", record |-> << rec("fallback") >>]
        ELSE [err |-> "none", record |-> << rec("diff") >>]

\* ctx.Done() has fired: only the caller's context can be cancelled.
CtxDone(ctx) == ctx = "caller" /\ cancelled

\* PatchContext handing on context.Background(), as Changes.Patch does.
PatchContextIgnoresCtx(c, ctx, codecvt) ==
    [ctx |-> "background", message |-> << >>, codecvt |-> codecvt, changes |-> c]

\* Changes.PatchContext: getPatchContext(ctx, "", codecvt, c...)
PatchContext(c, ctx, codecvt) ==
    [ctx |-> ctx, message |-> << >>, codecvt |-> codecvt, changes |-> c]

\* Change.PatchContext: getPatchContext(ctx, "", codecvt, c)
ChangePatchContext(c, ctx, codecvt) ==
    [ctx |-> ctx, message |-> << >>, codecvt |-> codecvt, changes |-> << c >>]

DirSide(path) ==
    [Name |-> path, Tree |-> "t1", TreeEntry |-> Entry(path, "dir", "h0")]

PatchSides ==
    { DirSide(PathAA) } \cup { FileSide(PathAY, h) : h \in {"h1", "h2", "h3", "h4", "h5", "h6"} }

\* The malformed change, every Insert, some Deletes, and the Modifies
\* from the small text file h1.
PatchChanges ==
    { [From |-> empty, To |-> empty] }
    \cup { [From |-> empty, To |-> s] : s \in PatchSides }
    \cup { [From |-> s, To |-> empty] :
              s \in { DirSide(PathAA), FileSide(PathAY, "h1"), FileSide(PathAY, "h3") } }
    \cup { [From |-> FileSide(PathAY, "h1"), To |-> s] : s \in PatchSides }

PatchInit ==
    /\ pChanges \in UNION { [1 .. n -> PatchChanges] : n \in 0 .. MaxPatchLen }
    /\ pArgs = << >> /\ cancelled = FALSE /\ pPos = 0
    /\ pRecords = << >> /\ pErr = "none" /\ pVia = "none" /\ ppc = "idle"
    /\ cancelAt = << >>
    /\ CodecParked /\ ChangeParked /\ SortParked /\ ScanParked /\ IndexParked

\* The caller calls Changes.PatchContext(ctx, codecvt).
PatchStart ==
    /\ ppc = "idle"
    /\ \E codecvt \in BOOLEAN :
         pArgs' = << PatchContext(pChanges, "caller", codecvt) >>
    /\ pVia' = "Changes"
    /\ pPos' = 1 /\ ppc' = "check"
    /\ UNCHANGED <<pChanges, cancelled, pRecords, pErr, cancelAt,
                   codecVars, changeVars, sortVars, scanVars, indexVars>>

\* The caller calls Change.PatchContext(ctx, codecvt) on its one change.
PatchStartChange ==
    /\ ppc = "idle"
    /\ Len(pChanges) = 1
    /\ \E codecvt \in BOOLEAN :
         pArgs' = << ChangePatchContext(pChanges[1], "caller", codecvt) >>
    /\ pVia' = "Change"
    /\ pPos' = 1 /\ ppc' = "check"
    /\ UNCHANGED <<pChanges, cancelled, pRecords, pErr, cancelAt,
                   codecVars, changeVars, sortVars, scanVars, indexVars>>

\* The head of the loop: return the Patch when no change is left; else
\* look at the context, and stop with what is built when it is done.
PatchCheck ==
    /\ ppc = "check"
    /\ IF pPos > Len(pArgs[1].changes)
       THEN ppc' = "done" /\ pErr' = "none"
       ELSE IF CtxDone(pArgs[1].ctx)
       THEN ppc' = "done" /\ pErr' = "cancelled"
       ELSE ppc' = "work" /\ pErr' = pErr
    /\ UNCHANGED <<pChanges, pArgs, cancelled, pPos, pRecords, pVia, cancelAt,
                   codecVars, changeVars, sortVars, scanVars, indexVars>>

\* The body of the loop: the change's record is added, or the build ends
\* with the change's error and no Patch.
PatchWork ==
    /\ ppc = "work"
    /\ LET r == ProcessChange(pArgs[1].changes[pPos])
       IN  IF r.err # "none"
           THEN pRecords' = << >> /\ pErr' = r.err /\ ppc' = "done" /\ pPos' = pPos
           ELSE /\ pRecords' = pRecords \o r.record
                /\ pErr' = pErr /\ ppc' = "check" /\ pPos' = pPos + 1
    /\ UNCHANGED <<pChanges, pArgs, cancelled, pVia, cancelAt,
                   codecVars, changeVars, sortVars, scanVars, indexVars>>

\* The caller's context becomes done, at any moment before the build ends.
Cancel ==
    /\ ~cancelled
    /\ ppc \in {"idle", "check", "work"}
    /\ cancelled' = TRUE
    /\ cancelAt' = << [phase |-> ppc, completed |-> Len(pRecords)] >>
    /\ UNCHANGED <<pChanges, pArgs, pPos, pRecords, pErr, pVia, ppc,
                   codecVars, changeVars, sortVars, scanVars, indexVars>>

Next == PatchStart \/ PatchStartChange \/ PatchCheck \/ PatchWork \/ Cancel

Init == PatchInit

Spec == Init /\ [][Next]_vars

-----------------------------------------------------------------------------
(* A Scanner on a reader: Scan and Err, called in any order, any number of *)
(* times                                                                   *)

\* pkt-len headers: flush, too short, the shortest payloads, the longest
\* accepted, too long, either case of the digits, and a byte next to each
\* range of hex digits in each position.
ScanHeaders ==
    { <<48, 48, 48, 48>>,       \* "0000"
      <<48, 48, 48, 49>>,       \* "0001"
      <<48, 48, 48, 52>>,       \* "0004"
      <<48, 48, 48, 53>>,       \* "0005"
      <<48, 48, 48, 54>>,       \* "0006"
      <<48, 48, 48, 97>>,       \* "000a"
      <<48, 48, 48, 65>>,       \* "000A"
      <<102, 102, 102, 48>>,    \* "fff0"
      <<70, 102, 70, 49>>,      \* "FfF1"
      <<102, 102, 102, 102>>,   \* "ffff"
      <<48, 48, 103, 48>>,      \* "00g0"
      <<48, 71, 48, 48>>,       \* "0G00"
      <<47, 48, 48, 48>>,       \* "/000"
      <<48, 48, 48, 58>> }      \* "000:"

\* A payload of k bytes: "p" and then "x"s.
ScanPayload(k) ==
    IF k = 0 THEN << >> ELSE RCat(Run(112, 1), Run(120, k - 1))

\* The payload length the digits of a header ask for, whatever its size.
ScanAsked(h) ==
    LET d == hexDecode(h)
    IN  IF d.err = "nil" /\ d.n > lenSize THEN d.n - lenSize ELSE 0

\* What a reader delivers for one pkt-line: a header with the payload it
\* asks for, with one byte less, or with none; or a header cut short.
ScanPackets ==
    UNION { { RCat(FromBytes(h), ScanPayload(k)) :
                  k \in {0, ScanAsked(h), ScanAsked(h) - 1} \ {-1} } :
            h \in ScanHeaders }
    \cup { FromBytes(<<48, 48>>), FromBytes(<<48, 48, 48>>) }

RECURSIVE ScanConcat(_)
ScanConcat(ps) ==
    IF ps = << >> THEN << >> ELSE RCat(ps[1], ScanConcat(Tail(ps)))

ScanStreams ==
    { ScanConcat(ps) : ps \in UNION { [1 .. n -> ScanPackets] : n \in 0 .. MaxPackets } }

\* How a reader ends: io.EOF, or an error of the connection.
ScanEnds == {"EOF", "ErrClosedPipe"}

ScanInit ==
    /\ scnR \in [data : ScanStreams, end : ScanEnds]
    /\ scnR0 = scnR
    /\ scnErr = NewScanner(scnR).err
    /\ scnPayload = NewScanner(scnR).payload
    /\ scnLen = NewScanner(scnR).len
    /\ scnRet = << >> /\ scnStop = "nil" /\ scnFirst = << >> /\ scnSeen = << >>
    /\ scnCalls = 0
    /\ CodecParked /\ ChangeParked /\ SortParked /\ PatchParked /\ IndexParked

Scan ==
    /\ scnCalls < MaxScans
    /\ scnCalls' = scnCalls + 1
    /\ \E c \in { ScanCall([r |-> scnR, err |-> scnErr,
                              payload |-> scnPayload, len |-> scnLen]) } :
           /\ scnR' = c.s.r
           /\ scnErr' = c.s.err
           /\ scnPayload' = c.s.payload
           /\ scnLen' = c.s.len
           /\ scnRet' = << c.ret >>
           /\ scnStop' = c.stop
           /\ scnFirst' = IF scnFirst = << >> /\ c.s.err # "nil"
                          THEN << c.s.err >> ELSE scnFirst
    /\ scnR0' = scnR
    /\ scnSeen' = << >>
    /\ UNCHANGED <<codecVars, changeVars, sortVars, patchVars, indexVars>>

Err ==
    /\ scnSeen' = << scnErr >>
    /\ UNCHANGED <<scnR, scnErr, scnPayload, scnLen, scnR0, scnRet, scnStop,
                   scnFirst, scnCalls, codecVars, changeVars, sortVars, patchVars, indexVars>>

ScanNext == Scan \/ Err

ScanSpec == ScanInit /\ [][ScanNext]_vars

-----------------------------------------------------------------------------
(* indexOf on a string and runesIndexOf on its runes, in either order      *)

\* "a", "b" and the 2-byte e-acute.
IndexRunes == {97, 98, 233}

IndexSeqs(n) == UNION { [1 .. k -> IndexRunes] : k \in 0 .. n }

IndexInit ==
    /\ ixStr \in IndexSeqs(MaxStrLen)
    /\ ixPat \in IndexSeqs(MaxPatLen)
    /\ ixI \in (0 - IndexMargin) .. (2 * MaxStrLen + IndexMargin)
    /\ ixRes = << >> /\ ixRunes = << >>
    /\ CodecParked /\ ChangeParked /\ SortParked /\ PatchParked /\ ScanParked

CallIndexOf ==
    /\ ixRes = << >>
    /\ ixRes' = << indexOf(StringOf(ixStr), StringOf(ixPat), ixI) >>
    /\ UNCHANGED <<ixStr, ixPat, ixI, ixRunes,
                   codecVars, changeVars, sortVars, patchVars, scanVars>>

CallRunesIndexOf ==
    /\ ixRunes = << >>
    /\ ixRunes' = << runesIndexOf(ixStr, ixPat, ixI) >>
    /\ UNCHANGED <<ixStr, ixPat, ixI, ixRes,
                   codecVars, changeVars, sortVars, patchVars, scanVars>>

IndexNext == CallIndexOf \/ CallRunesIndexOf

IndexSpec == IndexInit /\ [][IndexNext]_vars

-----------------------------------------------------------------------------
(* Properties of the codec, checked under CodecSpec                        *)

\* Whether intToRune was called and returned a rune.
Encoded == cpc \in {"encoded", "decoded"} /\ cRune[1].ok

\* C1: round trip. Whenever intToRune returned a rune for i, runeToInt on
\* that rune returns (it does not panic) and returns i.
C1_RoundTrip ==
    Encoded =>
        /\ runeToInt(cRune[1].v) = Returned(cIn)
        /\ (cpc = "decoded" => cOut = << Returned(cIn) >>)

\* C1 witness: the first input of the 4-byte branch went through both calls.
C1_Witness ==
    /\ cpc = "decoded" /\ cIn = Pow2(16) - 2048 - 3
    /\ cRune[1].ok /\ cRune[1].v = Pow2(16) /\ cOut[1].v = cIn

\* C2 as claimed: intToRune returns a rune, without panic, for every i with
\* 0 <= i < 2^21 - 2048 - 3.
C2_Original ==
    (cpc # "start" /\ cIn < Pow2(21) - 2048 - 3) => cRune[1].ok

\* C2 as amended: intToRune returns a rune exactly for the i with
\* 0 <= i <= 0x10FFFF - 2048 - 3 = 1112060; for every larger i it panics.
C2_Domain ==
    cpc # "start" => (cRune[1].ok <=> cIn <= 1114111 - 2048 - 3)

\* C2 witness: the largest input that is encoded, giving the rune 0x10FFFF.
C2_Witness ==
    /\ cpc = "encoded" /\ cIn = 1114111 - 2048 - 3
    /\ cRune[1].ok /\ cRune[1].v = 1114111

\* C9: intToRune never returns a rune for i >= 2^21 - 2048 - 3, and a rune it
\* returns is i itself, i + 2048 or i + 2048 + 3: never a wrapped or
\* truncated value of i.
C9_TooLargeFails ==
    cpc # "start" =>
        /\ (cIn >= Pow2(21) - 2048 - 3 => ~cRune[1].ok)
        /\ (cRune[1].ok => cRune[1].v \in {cIn, cIn + 2048, cIn + 2048 + 3})

\* C9 witness: the first input past the 4-byte branch panicked as too large.
C9_Witness ==
    /\ cpc = "encoded" /\ cIn = Pow2(21) - 2048 - 3 /\ ~cRune[1].ok
    /\ cRune[1].why = "The integer is too large for runeToInt()"

\* C10: every rune intToRune returns is a Unicode scalar value other than
\* 0xFFFD, 0xFFFE and 0xFFFF: it is in 0..0x10FFFF and outside 0xD800..0xDFFF.
C10_ValidScalar ==
    Encoded =>
        /\ 0 <= cRune[1].v /\ cRune[1].v <= 1114111
        /\ ~(55296 <= cRune[1].v /\ cRune[1].v <= 57343)
        /\ cRune[1].v \notin {65533, 65534, 65535}

\* C10 witness: the last input of the 3-byte branch gave 0xFFFC.
C10_Witness ==
    /\ cpc = "encoded" /\ cIn = Pow2(16) - 2048 - 4
    /\ cRune[1].ok /\ cRune[1].v = 65532

\* The tier the claim gives input i: the number of UTF-8 bytes of its rune.
C11_TierOf(i) ==
    IF i < Pow2(7) THEN 1
    ELSE IF i < Pow2(11) THEN 2
    ELSE IF i < Pow2(16) - 2048 - 3 THEN 3
    ELSE 4

\* What the tier of n bytes makes of the rune r when decoding.
C11_TierDecode(r, n) ==
    IF n \in {1, 2} THEN r
    ELSE IF n = 3 THEN (IF r >= 57343 THEN r - 2048 ELSE r)
    ELSE r - 2048 - 3

\* C11: tier boundaries are exact. The UTF-8 form of the rune intToRune
\* returned for i has 1 byte exactly when i < 2^7, 2 bytes exactly when
\* 2^7 <= i < 2^11, 3 bytes exactly when 2^11 <= i < 2^16 - 2048 - 3 and
\* 4 bytes exactly when i >= 2^16 - 2048 - 3; runeToInt decodes the rune by
\* the tier of that byte count.
C11_TierBoundaries ==
    Encoded =>
        LET n == Len(EncodeRune(cRune[1].v))
        IN  /\ n = C11_TierOf(cIn)
            /\ runeToInt(cRune[1].v) = Returned(C11_TierDecode(cRune[1].v, n))
            /\ (cpc = "decoded"
                    => cOut = << Returned(C11_TierDecode(cRune[1].v, n)) >>)

\* C11 witness: 2047 is the last input of 2 bytes, or 2048 the first of 3,
\* encoded and decoded again.
C11_Witness ==
    /\ cpc = "decoded" /\ cRune[1].ok
    /\ \/ cIn = 2047 /\ Len(EncodeRune(cRune[1].v)) = 2
       \/ cIn = 2048 /\ Len(EncodeRune(cRune[1].v)) = 3

-----------------------------------------------------------------------------
(* Properties of a Change, checked under ChangeSpec                        *)

\* A side is absent when it is the zero ChangeEntry.
Absent(side) == side = empty

\* A side has a file mode.
FileTyped(side) == side.TreeEntry.Mode \in {"regular", "executable"}

\* The file view of a side.
ViewOf(side) ==
    [Name |-> side.TreeEntry.Name, Mode |-> side.TreeEntry.Mode,
     Hash |-> side.TreeEntry.Hash, Size |-> side.TreeEntry.Size]

\* C3: Action is decided by which sides are absent: both gives the
\* malformed-change error, From only gives Insert, To only gives Delete,
\* neither gives Modify; the Change is left as it was.
C3_Action ==
    actRes # << >> =>
        /\ chg = chg0
        /\ actRes[1] =
             IF Absent(chg0.From) /\ Absent(chg0.To)
             THEN [action |-> "Action(0)", err |-> "malformed change: empty from and to"]
             ELSE IF Absent(chg0.From) THEN [action |-> "Insert", err |-> ""]
             ELSE IF Absent(chg0.To) THEN [action |-> "Delete", err |-> ""]
             ELSE [action |-> "Modify", err |-> ""]

\* C3 witness: Action was called on a Change with both sides absent and
\* returned the error.
C3_Witness ==
    /\ actRes # << >> /\ Absent(chg.From) /\ Absent(chg.To)
    /\ actRes[1].err # ""

\* C4 as claimed: for a Change with a side present, Files returns no error,
\* 'from' is a file view exactly when From is present with a file mode, and
\* 'to' is a file view exactly when To is present with a file mode.
C4_Original ==
    (filesRes # << >> /\ ~(Absent(chg.From) /\ Absent(chg.To))) =>
        /\ filesRes[1].err = ""
        /\ (filesRes[1].from # << >> <=> (~Absent(chg.From) /\ FileTyped(chg.From)))
        /\ (filesRes[1].to # << >> <=> (~Absent(chg.To) /\ FileTyped(chg.To)))

\* C4 as amended: a malformed Change returns the Action error and no file.
\* Otherwise there is no error; when every present side has a file mode,
\* 'from' is the view of From if present (None for an Insert) and 'to' the
\* view of To if present (None for a Delete); when some present side has a
\* non-file mode, both 'from' and 'to' are None.
C4_Files ==
    filesRes # << >> =>
        IF Absent(chg.From) /\ Absent(chg.To)
        THEN filesRes[1] = [from |-> << >>, to |-> << >>,
                            err |-> "malformed change: empty from and to"]
        ELSE IF \A side \in {chg.From, chg.To} : Absent(side) \/ FileTyped(side)
        THEN filesRes[1] =
                [from |-> IF Absent(chg.From) THEN << >> ELSE << ViewOf(chg.From) >>,
                 to   |-> IF Absent(chg.To) THEN << >> ELSE << ViewOf(chg.To) >>,
                 err  |-> ""]
        ELSE filesRes[1] = [from |-> << >>, to |-> << >>, err |-> ""]

\* C4 witness: Files was called on a Modify from a regular file to a
\* directory and returned neither side.
C4_Witness ==
    /\ filesRes # << >>
    /\ ~Absent(chg.From) /\ FileTyped(chg.From)
    /\ ~Absent(chg.To) /\ chg.To.TreeEntry.Mode = "dir"
    /\ filesRes[1] = [from |-> << >>, to |-> << >>, err |-> ""]

-----------------------------------------------------------------------------
(* Properties of the ordering, checked under SortSpec                      *)

\* The effective path of a change: From's path when From is present, To's
\* otherwise.
EffPath(c) == IF c.From # empty THEN c.From.Name ELSE c.To.Name

\* a is strictly smaller than b in byte-wise lexicographic order.
LexLess(a, b) ==
    \E k \in 0 .. Len(a) :
        /\ k <= Len(b)
        /\ \A m \in 1 .. k : a[m] = b[m]
        /\ \/ k = Len(a) /\ k < Len(b)
           \/ k < Len(a) /\ k < Len(b) /\ a[k + 1] < b[k + 1]

\* How often x occurs in the sequence q.
Count(q, x) == Cardinality({ k \in 1 .. Len(q) : q[k] = x })

EffPaths(q) == [k \in 1 .. Len(q) |-> EffPath(q[k])]

\* C7: Less(i, j) holds exactly when the effective path of i is strictly
\* smaller than that of j; once sorted, the collection is a permutation of
\* the input in non-decreasing order of effective path; and changes at
\* b/x, a/y, a/a come out as a/a, a/y, b/x.
C7_Sorted ==
    /\ \A i, j \in 1 .. Len(sC) :
          Less(sC, i, j) <=> LexLess(EffPath(sC[i]), EffPath(sC[j]))
    /\ spc = "done" =>
          /\ Len(sC) = Len(sIn)
          /\ \A k \in 1 .. Len(sIn) : Count(sC, sIn[k]) = Count(sIn, sIn[k])
          /\ \A i, j \in 1 .. Len(sC) :
                i < j => ~LexLess(EffPath(sC[j]), EffPath(sC[i]))
          /\ (EffPaths(sIn) = << PathBX, PathAY, PathAA >>
                => EffPaths(sC) = << PathAA, PathAY, PathBX >>)

\* C7 witness: an Insert at b/x, a Delete at a/y and a Modify at a/a were
\* sorted into a/a, a/y, b/x.
C7_Witness ==
    /\ spc = "done"
    /\ Len(sIn) = 3
    /\ Absent(sIn[1].From) /\ sIn[1].To.Name = PathBX
    /\ sIn[2].From.Name = PathAY /\ Absent(sIn[2].To)
    /\ sIn[3].From.Name = PathAA /\ sIn[3].To.Name = PathAA
    /\ EffPaths(sC) = << PathAA, PathAY, PathBX >>

-----------------------------------------------------------------------------
(* Properties of the build of a Patch, checked under Spec                  *)

\* The action of a change with a side present.
ActionOf(c) ==
    IF Absent(c.From) THEN "Insert" ELSE IF Absent(c.To) THEN "Delete" ELSE "Modify"

\* The records q are those of the first Len(q) changes of cs, in order.
RecordsOfPrefix(q, cs) ==
    /\ Len(q) <= Len(cs)
    /\ \A k \in 1 .. Len(q) :
          q[k].path = EffPath(cs[k]) /\ q[k].action = ActionOf(cs[k])

\* The context became done when the build stood before a change, n changes
\* being completed: before the call (n = 0) or between two changes.
CancelledBefore(n) ==
    /\ cancelAt # << >>
    /\ cancelAt[1].phase \in {"idle", "check"}
    /\ cancelAt[1].completed = n

Malformed(c) == Absent(c.From) /\ Absent(c.To)

\* A blob of the change is read and is not in the store: every present
\* side is a file, and one of them has a hash the store does not hold.
StoreFails(c) ==
    /\ ~Malformed(c)
    /\ \A side \in {c.From, c.To} : Absent(side) \/ FileTyped(side)
    /\ \E side \in {c.From, c.To} :
          ~Absent(side) /\ GetBlob(side.TreeEntry.Hash).kind = "missing"

Overflows(c) ==
    /\ ~Malformed(c)
    /\ \A side \in {c.From, c.To} :
          Absent(side) \/ (FileTyped(side) /\ GetBlob(side.TreeEntry.Hash).kind = "text")
    /\ \E side \in {c.From, c.To} :
          ~Absent(side) /\ GetBlob(side.TreeEntry.Hash).lines - 1 > 1114111 - 2048 - 3

-----------------------------------------------------------------------------
(* Properties of the Scanner, checked under ScanSpec                       *)

\* C12: the Scanner's error is sticky. Err returns the first error the
\* Scanner encountered: nil while no Scan has left an error, and, once a
\* Scan has returned false with a non-nil error, that same error on every
\* later call, whatever Scans follow and whatever the reader delivers.
C12_Sticky ==
    scnSeen # << >> =>
        IF scnFirst = << >> THEN scnSeen[1] = "nil"
        ELSE scnSeen[1] = scnFirst[1]

\* Where C12 fails: a Scan stopped on ErrInvalidPktLen, a later Scan
\* returned true, and Err then returned nil.
C12_Witness ==
    /\ scnFirst = << ErrInvalidPktLen >>
    /\ scnRet = << TRUE >>
    /\ scnSeen = << "nil" >>

\* C13: after Scan returns false, Err returns the error that stopped the
\* scan, except that it returns nil when that error was io.EOF; Err never
\* returns io.EOF.
C13_ErrAfterFalse ==
    /\ scnRet = << FALSE >> =>
           scnErr = (IF scnStop = "EOF" THEN "nil" ELSE scnStop)
    /\ scnErr # "EOF"
    /\ scnSeen # << >> => scnSeen[1] # "EOF"

\* Where C13 fails: the reader ended right after a complete header that
\* asks for a payload, and Err returned io.EOF.
C13_Witness ==
    /\ scnRet = << FALSE >>
    /\ RLen(scnR0.data) = lenSize /\ scnR0.end = "EOF"
    /\ scnStop = "EOF"
    /\ scnSeen = << "EOF" >>

\* The hex digits, either case, and their values.
C14_Digit ==
    (48 :> 0) @@ (49 :> 1) @@ (50 :> 2) @@ (51 :> 3) @@ (52 :> 4) @@ (53 :> 5)
    @@ (54 :> 6) @@ (55 :> 7) @@ (56 :> 8) @@ (57 :> 9)
    @@ (65 :> 10) @@ (66 :> 11) @@ (67 :> 12) @@ (68 :> 13) @@ (69 :> 14)
    @@ (70 :> 15)
    @@ (97 :> 10) @@ (98 :> 11) @@ (99 :> 12) @@ (100 :> 13) @@ (101 :> 14)
    @@ (102 :> 15)

\* C14: pkt-line framing. When the reader delivers a whole header, of 4 hex
\* digits of value n, Scan succeeds with an empty payload when n = 0, fails
\* with ErrInvalidPktLen when 1 <= n <= 4 or n > maximum payload size + 4,
\* and otherwise, the reader delivering n - 4 more bytes, succeeds,
\* consumes exactly those and Bytes returns exactly those; a header with a
\* non-hex byte fails with ErrInvalidPktLen. After every successful Scan
\* the payload is at most the maximum payload size long.
C14_Framing ==
    /\ (scnRet # << >> /\ RLen(scnR0.data) >= 4) =>
          LET hdr  == Expand(RTake(scnR0.data, 4))
              rest == RDrop(scnR0.data, 4)
              hex  == \A k \in 1 .. 4 : hdr[k] \in DOMAIN C14_Digit
              n    == 4096 * C14_Digit[hdr[1]] + 256 * C14_Digit[hdr[2]]
                          + 16 * C14_Digit[hdr[3]] + C14_Digit[hdr[4]]
          IN  IF ~hex
              THEN scnRet = << FALSE >> /\ scnErr = ErrInvalidPktLen
              ELSE IF n = 0
              THEN /\ scnRet = << TRUE >> /\ scnErr = "nil"
                   /\ Bytes(scnPayload) = << >> /\ scnR.data = rest
              ELSE IF n <= 4 \/ n > OversizePayloadMax + 4
              THEN scnRet = << FALSE >> /\ scnErr = ErrInvalidPktLen
              ELSE IF RLen(rest) >= n - 4
              THEN /\ scnRet = << TRUE >> /\ scnErr = "nil"
                   /\ Bytes(scnPayload) = RTake(rest, n - 4)
                   /\ scnR.data = RDrop(rest, n - 4)
              ELSE scnRet = << FALSE >>
    /\ scnRet = << TRUE >> => RLen(Bytes(scnPayload)) <= OversizePayloadMax

\* C14 witness: a Scan returned the longest payload there is, under the
\* header "fff0", with the reader holding more after it.
C14_Witness ==
    /\ scnRet = << TRUE >>
    /\ Expand(RTake(scnR0.data, 4)) = <<102, 102, 102, 48>>
    /\ RLen(Bytes(scnPayload)) = OversizePayloadMax
    /\ Bytes(scnPayload) = ScanPayload(OversizePayloadMax)
    /\ scnR.data # << >>

-----------------------------------------------------------------------------
(* Properties of indexOf and runesIndexOf, checked under IndexSpec         *)

\* The indices k >= max(i, 0) at which pattern p occurs in s.
C15_Occurs(s, p, i) ==
    { k \in (IF i > 0 THEN i ELSE 0) .. Len(s) :
          k + Len(p) <= Len(s) /\ SubSeq(s, k + 1, k + Len(p)) = p }

\* Whether res is the smallest such index, or -1 when there is none.
C15_First(s, p, i, res) ==
    IF C15_Occurs(s, p, i) = {} THEN res = -1
    ELSE res = Least(C15_Occurs(s, p, i))

\* Whether every rune is a single-byte character.
C15_SingleByte(runes) == \A k \in 1 .. Len(runes) : runes[k] < 128

\* C15 as claimed: for every str, pattern (the empty one included) and i,
\* indexOf returns the smallest index k >= max(i, 0) at which pattern
\* occurs in str, and -1 exactly when there is none; runesIndexOf does the
\* same on rune slices, and the two agree on single-byte characters.
C15_Original ==
    /\ ixRes # << >> =>
           C15_First(StringOf(ixStr), StringOf(ixPat), ixI, ixRes[1])
    /\ ixRunes # << >> => C15_First(ixStr, ixPat, ixI, ixRunes[1])
    /\ (ixRes # << >> /\ ixRunes # << >>
            /\ C15_SingleByte(ixStr) /\ C15_SingleByte(ixPat))
           => ixRes = ixRunes

\* C15 as amended: the same, except that for i >= len(str) the result is
\* -1 whatever the pattern, the empty pattern (which occurs at len(str))
\* included.
C15_IndexOf ==
    /\ ixRes # << >> =>
           IF ixI >= Len(StringOf(ixStr)) THEN ixRes[1] = -1
           ELSE C15_First(StringOf(ixStr), StringOf(ixPat), ixI, ixRes[1])
    /\ ixRunes # << >> =>
           IF ixI >= Len(ixStr) THEN ixRunes[1] = -1
           ELSE C15_First(ixStr, ixPat, ixI, ixRunes[1])
    /\ (ixRes # << >> /\ ixRunes # << >>
            /\ C15_SingleByte(ixStr) /\ C15_SingleByte(ixPat))
           => ixRes = ixRunes

\* C15 witness: "a" in "aba" from index 1 on is found at 2, by both.
C15_Witness ==
    /\ ixStr = <<97, 98, 97>> /\ ixPat = <<97>> /\ ixI = 1
    /\ ixRes = << 2 >> /\ ixRunes = << 2 >>

=============================================================================
